---- MODULE Spec2Model ----
(***************************************************************************)
(* Model of the transcription pipeline of BonanzaEcho                       *)
(* (src/src/utils/assemblyAI.js) and of the two admin handlers that start  *)
(* it (src/src/routes/publicRoutes.js: POST /episodes and                   *)
(* POST /episodes/:episodeId/retry-transcription).                         *)
(*                                                                         *)
(* Every awaited call of the code is one action, taken at the moment the   *)
(* store or the provider applies it.  The provider's calls can throw.  The *)
(* three statements of processTranscription whose error the code tests can *)
(* fail, and then change nothing; a status-only update, whose result the   *)
(* code discards, is applied whenever the episode row exists.  A delete of  *)
(* the deletion handlers whose error the code does not read can fail, and  *)
(* the handler goes on.  Times are kept in milliseconds; the code's        *)
(* seconds are the millisecond value divided by 1000.                      *)
(***************************************************************************)
EXTENDS Integers, Sequences, FiniteSets, TLC

\* ------------------------------------------------------------------ bounds
MaxOrch == 2        \* transcribeEpisode runs the model follows
MaxWords == 3       \* longest word list fed to the segmenter
MaxClips == 1       \* POST /clips requests the model follows
MaxReq == 2         \* requests to the admin routes, and to POST /register

\* ------------------------------------------------------- program constants
maxAttempts == 20           \* pollForTranscriptionCompletion default
segmentDurationMs == 30000  \* segmentDuration = 30 seconds
MsPerSecond == 1000         \* the divisor of every "/ 1000"

Orchs == 1..MaxOrch
Episode == 1                \* the episode row the model follows
Other == 2                  \* an episode of another podcast
OtherRun == 0               \* the id of the transcript row of Other's run
NoDuration == -1            \* episodes.duration not yet set (NULL)
SP == " "                   \* the blank the segmenter puts before a word

Terminal == {"completed", "failed"}
Statuses == {"pending", "in_progress", "completed", "failed"}

\* ------------------------------------------------------------ input domains
TimePoints == {0, 2002, 15000, 30000, 32002, 45000}
Texts == {"a", "b"}
Words == {w \in [start : TimePoints, end : TimePoints, text : Texts] :
            w.start <= w.end}

\* the provider lists words in time order
TimeOrdered(ws) ==
  \A i \in 1..(Len(ws) - 1) :
      /\ ws[i].start <= ws[i + 1].start
      /\ ws[i].end <= ws[i + 1].end

Wd(s, e, t) == [start |-> s, end |-> e, text |-> t]

\* completed payloads the provider answers with in the orchestration
PayloadWords ==
  { <<>>,
    << Wd(0, 2002, "a"), Wd(2002, 15000, "b"), Wd(30000, 45000, "a") >> }
AudioDurations == {44001, 45000}
Payloads ==
  {p \in [words : PayloadWords, audio_duration : AudioDurations] :
     (p.audio_duration = 45000) <=> (Len(p.words) = 3)}
\* every time-ordered list of 3 words that spans 45 seconds
ScenarioWords ==
  {ws \in [1..3 -> Words] :
     TimeOrdered(ws) /\ ws[3].end - ws[1].start = 45000}
ScenarioPayloads == [words : ScenarioWords, audio_duration : AudioDurations]
NoData == [words |-> <<>>, audio_duration |-> 0]

\* bodies of POST /clips: times in seconds, Undefined for a missing field,
\* episode_id 0 for a missing one
Undefined == -1
ClipTimes == {0, 30}
NoText == <<>>
ClipEnd == 30
ClipBodies == [episode_id : {0, Episode},
               start_time : ClipTimes \cup {Undefined},
               end_time : {ClipEnd, Undefined}]
NoClipReq == [episode_id |-> 0, start_time |-> Undefined,
              end_time |-> Undefined, transcript_text |-> NoText]

\* requests, numbered in the order in which they arrive
Reqs == 1..MaxReq

\* Authorization headers: none, or a token that jwt.verify accepts or not,
\* carrying a user id
UserIds == {1, 2}
NoToken == [present |-> FALSE, valid |-> FALSE, id |-> 0]
Tokens == {NoToken} \cup [present : {TRUE}, valid : BOOLEAN, id : UserIds]

\* answers of select('id, email, role').eq('id', decoded.id).single()
Roles == {"admin", "editor"}
NoRow == [found |-> FALSE, error |-> FALSE, role |-> "none"]
StoreError == [found |-> FALSE, error |-> TRUE, role |-> "none"]
UserAnswers == {NoRow, StoreError} \cup [found : {TRUE}, error : {FALSE}, role : Roles]

\* bodies of POST /register
Emails == {"a@x", "b@x"}
NoEmail == ""

\* GET /search without a query parameter
NoQuery == [present |-> FALSE, words |-> <<>>]

\* ------------------------------------------------------------ the segmenter
\* starts s (ms) for which the doubles (s + 30000) / 1000 - s / 1000 round
\* to a value above 30
InexactStarts == {2002}

\* ExceedsDuration with the limit taken twice
ExceedsDurationTwice(wordEndMs, segStartMs) ==
  wordEndMs - segStartMs > 2 * segmentDurationMs

\* wordEnd - segmentStart > segmentDuration, on doubles
ExceedsDuration(wordEndMs, segStartMs) ==
  \/ wordEndMs - segStartMs > segmentDurationMs
  \/ /\ wordEndMs - segStartMs = segmentDurationMs
     /\ segStartMs \in InexactStarts

RECURSIVE Trim(_)
Trim(t) ==
  IF t = <<>> THEN <<>>
  ELSE IF Head(t) = SP THEN Trim(Tail(t))
  ELSE IF t[Len(t)] = SP THEN Trim(SubSeq(t, 1, Len(t) - 1))
  ELSE t

MkSegment(tid, eid, segStart, cur, text) ==
  [transcript_id |-> tid, episode_id |-> eid,
   start_time |-> segStart, end_time |-> cur[Len(cur)].end,
   text |-> Trim(text)]

\* SegLoop with the word put in front of segmentText
RECURSIVE SegLoopPrepend(_, _, _, _, _, _, _, _)
SegLoopPrepend(tid, eid, ws, i, cur, segStart, text, segs) ==
  IF i > Len(ws)
  THEN IF Len(cur) > 0
       THEN Append(segs, MkSegment(tid, eid, segStart, cur, text))
       ELSE segs
  ELSE LET word == ws[i]
           cut == ExceedsDuration(word.end, segStart) /\ Len(cur) > 0
       IN IF cut
          THEN SegLoopPrepend(tid, eid, ws, i + 1, <<word>>, word.start,
                       <<SP, word.text>>,
                       Append(segs, MkSegment(tid, eid, segStart, cur, text)))
          ELSE SegLoopPrepend(tid, eid, ws, i + 1, Append(cur, word), segStart,
                       <<SP, word.text>> \o text, segs)

\* SegLoop without "segmentStart = wordStart" after a cut
RECURSIVE SegLoopKeepStart(_, _, _, _, _, _, _, _)
SegLoopKeepStart(tid, eid, ws, i, cur, segStart, text, segs) ==
  IF i > Len(ws)
  THEN IF Len(cur) > 0
       THEN Append(segs, MkSegment(tid, eid, segStart, cur, text))
       ELSE segs
  ELSE LET word == ws[i]
           cut == ExceedsDuration(word.end, segStart) /\ Len(cur) > 0
       IN IF cut
          THEN SegLoopKeepStart(tid, eid, ws, i + 1, <<word>>, segStart,
                       <<SP, word.text>>,
                       Append(segs, MkSegment(tid, eid, segStart, cur, text)))
          ELSE SegLoopKeepStart(tid, eid, ws, i + 1, Append(cur, word),
                       segStart, text \o <<SP, word.text>>, segs)

\* SegLoop without the final segment after the loop
RECURSIVE SegLoopNoFlush(_, _, _, _, _, _, _, _)
SegLoopNoFlush(tid, eid, ws, i, cur, segStart, text, segs) ==
  IF i > Len(ws)
  THEN segs
  ELSE LET word == ws[i]
           cut == ExceedsDuration(word.end, segStart) /\ Len(cur) > 0
       IN IF cut
          THEN SegLoopNoFlush(tid, eid, ws, i + 1, <<word>>, word.start,
                       <<SP, word.text>>,
                       Append(segs, MkSegment(tid, eid, segStart, cur, text)))
          ELSE SegLoopNoFlush(tid, eid, ws, i + 1, Append(cur, word), segStart,
                       text \o <<SP, word.text>>, segs)

\* the for-loop of processTranscription from word i on
RECURSIVE SegLoop(_, _, _, _, _, _, _, _)
SegLoop(tid, eid, ws, i, cur, segStart, text, segs) ==
  IF i > Len(ws)
  THEN IF Len(cur) > 0
       THEN Append(segs, MkSegment(tid, eid, segStart, cur, text))
       ELSE segs
  ELSE LET word == ws[i]
           cut == ExceedsDuration(word.end, segStart) /\ Len(cur) > 0
       IN IF cut
          THEN SegLoop(tid, eid, ws, i + 1, <<word>>, word.start,
                       <<SP, word.text>>,
                       Append(segs, MkSegment(tid, eid, segStart, cur, text)))
          ELSE SegLoop(tid, eid, ws, i + 1, Append(cur, word), segStart,
                       text \o <<SP, word.text>>, segs)

\* Segmenter with segmentStart initialised to 0
SegmenterFromZero(tid, eid, ws) ==
  IF Len(ws) > 0
  THEN SegLoop(tid, eid, ws, 1, <<>>, 0, <<>>, <<>>)
  ELSE <<>>

\* Step 2 of processTranscription up to the insert: words to segments
Segmenter(tid, eid, ws) ==
  IF Len(ws) > 0
  THEN SegLoop(tid, eid, ws, 1, <<>>, ws[1].start, <<>>, <<>>)
  ELSE <<>>

\* saveTranscriptLoop closing a segment that has reached the limit
RECURSIVE saveTranscriptLoopInclusive(_, _, _, _, _, _, _, _)
saveTranscriptLoopInclusive(tid, eid, ws, i, cur, segStart, text, segs) ==
  IF i > Len(ws)
  THEN IF Len(cur) > 0
       THEN Append(segs, MkSegment(tid, eid, segStart, cur, text))
       ELSE segs
  ELSE LET word == ws[i]
           cut == /\ word.end - segStart >= segmentDurationMs
                  /\ Len(cur) > 0
       IN IF cut
          THEN saveTranscriptLoopInclusive(tid, eid, ws, i + 1, <<word>>,
                       word.start, <<SP, word.text>>,
                       Append(segs, MkSegment(tid, eid, segStart, cur, text)))
          ELSE saveTranscriptLoopInclusive(tid, eid, ws, i + 1,
                       Append(cur, word), segStart,
                       text \o <<SP, word.text>>, segs)

\* the for-loop of saveTranscript in server-reference.js from word i on
RECURSIVE saveTranscriptLoop(_, _, _, _, _, _, _, _)
saveTranscriptLoop(tid, eid, ws, i, cur, segStart, text, segs) ==
  IF i > Len(ws)
  THEN IF Len(cur) > 0
       THEN Append(segs, MkSegment(tid, eid, segStart, cur, text))
       ELSE segs
  ELSE LET word == ws[i]
           cut == ExceedsDuration(word.end, segStart) /\ Len(cur) > 0
       IN IF cut
          THEN saveTranscriptLoop(tid, eid, ws, i + 1, <<word>>, word.start,
                       <<SP, word.text>>,
                       Append(segs, MkSegment(tid, eid, segStart, cur, text)))
          ELSE saveTranscriptLoop(tid, eid, ws, i + 1, Append(cur, word),
                       segStart, text \o <<SP, word.text>>, segs)

\* saveTranscript up to the insert of the segments: words to segments
saveTranscriptSegments(tid, eid, ws) ==
  IF Len(ws) > 0
  THEN saveTranscriptLoop(tid, eid, ws, 1, <<>>, ws[1].start, <<>>, <<>>)
  ELSE <<>>

\* Math.floor in place of Math.ceil
FloorSeconds(ms) == ms \div MsPerSecond

\* Math.ceil(audio_duration / 1000)
CeilSeconds(ms) == (ms + (MsPerSecond - 1)) \div MsPerSecond

\* -------------------------------------------------------------------- state
VARIABLES
  status,       \* episodes.transcription_status of the episode, "none" = no row
  duration,     \* episodes.duration
  transcripts,  \* rows of table transcripts
  segments,     \* rows of table transcript_segments
  pc,           \* where each transcribeEpisode run (or its trigger) stands
  attempts,     \* pollForTranscriptionCompletion's attempts, 0 outside the loop
  data,         \* transcriptionData inside processTranscription
  result,       \* what transcribeEpisode returned: "none", "success", "failure"
  resp,         \* HTTP answer of the last request that asked for the slot
  polled,       \* history: the run has called getTranscriptionResult
  fetches,      \* history: getTranscriptionResult calls of the run's poll
                \* loop; kept after a timeout, 0 once an answer ends the loop
  cause,        \* history: what made the run throw
  hist,         \* history: the distinct status values of the episode, in
                \* order, kept until a retry request has read the episode
  segWords,     \* segmenter harness: the word list
  segOut,       \* segmenter harness: the segments returned
  segRan,       \* segmenter harness: the segmenter has run on segWords
  lib,          \* the library: the podcast row, table clips, where the
                \* POST /clips and the two DELETE requests stand, and the
                \* episode of another podcast with its run
  search,       \* the GET /search request: its query, what the search
                \* utilities returned to it, its answer
  auth,         \* each request to an admin route: its header, what the
                \* store answered the middleware, its answer
  reg           \* table users and each POST /register request

vars == <<status, duration, transcripts, segments, pc, attempts, data, result,
          resp, polled, fetches, cause, hist, segWords, segOut, segRan,
          lib, search, auth, reg>>

storeVars == <<status, duration, transcripts, segments, hist>>
segVars == <<segWords, segOut, segRan>>
orchVars == <<pc, attempts, data, result, resp, polled, fetches, cause>>
pipeVars == <<storeVars, orchVars, segVars>>
\* the state of the handlers outside the transcription pipeline
sideVars == <<lib, search, auth, reg>>

\* the fields of lib
podcast == lib.podcast          \* the row of the one podcast exists
clips == lib.clips              \* rows of table clips
nextClip == lib.nextClip        \* clips made so far: the id sequence
clipPc == lib.clipPc            \* where the POST /clips request stands
clipReq == lib.clipReq          \* its body
clipResp == lib.clipResp        \* HTTP answer of the last POST /clips
delEp == lib.delEp              \* where DELETE /episodes/:episodeId stands
delEpResp == lib.delEpResp      \* its HTTP answer
delEpFailed == lib.delEpFailed  \* history: one of its statements failed
delPod == lib.delPod            \* where DELETE /podcasts/:podcastId stands
delPodTodo == lib.delPodTodo    \* the episode ids its select returned, not
                                \* yet looped over
delPodResp == lib.delPodResp    \* its HTTP answer
ep2 == lib.ep2                  \* the row of the episode Other (status,
                                \* duration) and its transcribeEpisode run
                                \* (pc, attempts, data, result)

\* the fields of search
searchPc == search.pc           \* where the request stands
query == search.query           \* its query parameter
results == search.results       \* what searchTranscripts returned to it
keywords == search.keywords     \* related_keywords of its answer
searchResp == search.resp       \* its HTTP answer
called == search.called         \* history: the search utilities called
kwStore == search.kwStore       \* history: what the store answered
                                \* getRelatedKeywords: "none" (not asked),
                                \* "error" or "rows"
kwMatched == search.kwMatched   \* history: the segment texts it returned

\* the fields of auth, by request
authPc == [r \in Reqs |-> auth[r].pc]
authToken == [r \in Reqs |-> auth[r].token]      \* the Authorization header
authRow == [r \in Reqs |-> auth[r].row]          \* the store's answer
authResp == [r \in Reqs |-> auth[r].resp]        \* 0 while there is none
handlerRan == [r \in Reqs |-> auth[r].ran]       \* history: next() was called

\* the fields of reg
users == reg.users                               \* rows of table users
regPc == [r \in Reqs |-> reg.reqs[r].pc]
regEmail == [r \in Reqs |-> reg.reqs[r].email]   \* the email of the body
regResp == [r \in Reqs |-> reg.reqs[r].resp]     \* 0 while there is none

\* runs are numbered in the order in which their requests arrive
NextSlot(o) ==
  /\ pc[o] = "idle"
  /\ \A q \in Orchs : q < o => pc[q] # "idle"

\* update({ transcription_status: s }).eq('id', episodeId) as the store
\* applies it: the row is changed when it exists
WriteStatus(s) ==
  IF status = "none"
  THEN UNCHANGED <<status, hist>>
  ELSE /\ status' = s
       /\ hist' = IF hist = <<>> \/ hist[Len(hist)] = s
                  THEN hist ELSE Append(hist, s)

Init ==
  /\ status = "none"
  /\ duration = NoDuration
  /\ transcripts = {}
  /\ segments = {}
  /\ pc = [o \in Orchs |-> "idle"]
  /\ attempts = [o \in Orchs |-> 0]
  /\ data = [o \in Orchs |-> NoData]
  /\ result = [o \in Orchs |-> "none"]
  /\ resp = [o \in Orchs |-> 0]
  /\ polled = [o \in Orchs |-> FALSE]
  /\ fetches = [o \in Orchs |-> 0]
  /\ cause = [o \in Orchs |-> "none"]
  /\ hist = <<>>
  /\ segWords = <<>>
  /\ segOut = <<>>
  /\ segRan = FALSE
  /\ lib = [podcast |-> FALSE, clips |-> {}, nextClip |-> 0,
            clipPc |-> "idle", clipReq |-> NoClipReq, clipResp |-> 0,
            delEp |-> "idle", delEpResp |-> 0, delEpFailed |-> FALSE,
            delPod |-> "idle", delPodTodo |-> <<>>, delPodResp |-> 0,
            ep2 |-> [status |-> "none", duration |-> NoDuration,
                     pc |-> "idle", attempts |-> 0, data |-> NoData,
                     result |-> "none"]]
  /\ search = [pc |-> "idle", query |-> NoQuery, results |-> <<>>,
               keywords |-> <<>>, resp |-> 0, called |-> {},
               kwStore |-> "none", kwMatched |-> <<>>]
  /\ auth = [r \in Reqs |->
               [pc |-> "idle", token |-> NoToken, row |-> NoRow, resp |-> 0,
                ran |-> FALSE]]
  /\ reg = [users |-> {},
            reqs |-> [r \in Reqs |->
                        [pc |-> "idle", email |-> NoEmail, resp |-> 0]]]

\* ------------------------------------------------------------ the handlers
\* POST /episodes: validation, storage upload, insert of the episode row with
\* status pending, then transcribeEpisode is started and 201 is answered
UploadEpisode(o) ==
  /\ NextSlot(o)
  /\ status = "none"
  /\ \E outcome \in {"invalid", "storage_error", "insert_error", "created"} :
       IF outcome = "created"
       THEN /\ status' = "pending"
            /\ hist' = <<"pending">>
            /\ pc' = [pc EXCEPT ![o] = "mark"]
            /\ resp' = [resp EXCEPT ![o] = 201]
       ELSE /\ resp' = [resp EXCEPT ![o] = 400]
            /\ UNCHANGED <<status, hist, pc>>
  /\ UNCHANGED <<duration, transcripts, segments, attempts, data, result,
                 polled, fetches, cause, segVars, sideVars>>

\* RetryRead refusing an episode whose transcription is under way
RetryReadGuarded(o) ==
  /\ NextSlot(o)
  /\ \E readOk \in BOOLEAN :
       IF readOk /\ status \in {"completed", "failed"}
       THEN /\ pc' = [pc EXCEPT ![o] = "reset"]
            /\ hist' = <<>>
            /\ UNCHANGED resp
       ELSE /\ resp' = [resp EXCEPT ![o] = 400]
            /\ UNCHANGED <<pc, hist>>
  /\ UNCHANGED <<status, duration, transcripts, segments, attempts, data, result, polled, fetches, cause, segVars, sideVars>>

\* POST /episodes/:episodeId/retry-transcription, the read of the episode row
RetryRead(o) ==
  /\ NextSlot(o)
  /\ \E readOk \in BOOLEAN :
       IF readOk /\ status # "none"
       THEN /\ pc' = [pc EXCEPT ![o] = "reset"]
            /\ hist' = <<>>
            /\ UNCHANGED resp
       ELSE /\ resp' = [resp EXCEPT ![o] = 400]
            /\ UNCHANGED <<pc, hist>>
  /\ UNCHANGED <<status, duration, transcripts, segments, attempts, data, result, polled, fetches, cause, segVars, sideVars>>

\* RetryReset without the status write
RetryResetKeepStatus(o) ==
  /\ pc[o] = "reset"
  /\ UNCHANGED <<status, hist>>
  /\ pc' = [pc EXCEPT ![o] = "mark"]
  /\ resp' = [resp EXCEPT ![o] = 200]
  /\ UNCHANGED <<duration, transcripts, segments, attempts, data, result,
                 polled, fetches, cause, segVars, sideVars>>

\* retry-transcription, the status reset; transcribeEpisode is started and
\* the request is answered
RetryReset(o) ==
  /\ pc[o] = "reset"
  /\ status' = IF status = "none" THEN status ELSE "pending"
  /\ UNCHANGED hist
  /\ pc' = [pc EXCEPT ![o] = "mark"]
  /\ resp' = [resp EXCEPT ![o] = 200]
  /\ UNCHANGED <<duration, transcripts, segments, attempts, data, result,
                 polled, fetches, cause, segVars, sideVars>>

\* ---------------------------------------------------------- transcribeEpisode
\* transcribeEpisode without its first status write
MarkInProgressSkip(o) ==
  /\ pc[o] = "mark"
  /\ pc' = [pc EXCEPT ![o] = "request"]
  /\ UNCHANGED <<storeVars, attempts, data, result, resp, polled, fetches,
                 cause, segVars, sideVars>>

\* the status write in_progress
MarkInProgress(o) ==
  /\ pc[o] = "mark"
  /\ WriteStatus("in_progress")
  /\ pc' = [pc EXCEPT ![o] = "request"]
  /\ UNCHANGED <<duration, transcripts, segments, attempts, data, result,
                 resp, polled, fetches, cause, segVars, sideVars>>

\* requestTranscription with the error of the submit swallowed
RequestTranscriptionSwallow(o) ==
  /\ pc[o] = "request"
  /\ \E submitOk \in BOOLEAN :
       /\ pc' = [pc EXCEPT ![o] = "poll"]
       /\ cause' = [cause EXCEPT ![o] = IF submitOk THEN @ ELSE "submit"]
  /\ UNCHANGED <<storeVars, attempts, data, result, resp, polled, fetches,
                 segVars, sideVars>>

\* requestTranscription: the provider answers with a job id, or the call throws
RequestTranscription(o) ==
  /\ pc[o] = "request"
  /\ \E submitOk \in BOOLEAN :
       IF submitOk
       THEN /\ pc' = [pc EXCEPT ![o] = "poll"]
            /\ UNCHANGED cause
       ELSE /\ pc' = [pc EXCEPT ![o] = "catch"]
            /\ cause' = [cause EXCEPT ![o] = "submit"]
  /\ UNCHANGED <<storeVars, attempts, data, result, resp, polled, fetches, segVars, sideVars>>

\* while (attempts <= maxAttempts)
LoopGuardInclusive(n) == n <= maxAttempts

\* while (attempts < maxAttempts)
LoopGuard(n) == n < maxAttempts

\* PollOnce with a job status of error treated as not yet complete
PollOnceRetryError(o, P) ==
  /\ pc[o] = "poll"
  /\ LoopGuard(attempts[o])
  /\ polled' = [polled EXCEPT ![o] = TRUE]
  /\ \E answer \in {"throws", "error", "processing", "completed"} :
       CASE answer = "throws" ->
              /\ pc' = [pc EXCEPT ![o] = "catch"]
              /\ cause' = [cause EXCEPT ![o] = "poll_error"]
              /\ attempts' = [attempts EXCEPT ![o] = 0]
              /\ fetches' = [fetches EXCEPT ![o] = 0]
              /\ UNCHANGED data
         [] answer = "completed" ->
              /\ \E p \in P : data' = [data EXCEPT ![o] = p]
              /\ pc' = [pc EXCEPT ![o] = "insert_transcript"]
              /\ attempts' = [attempts EXCEPT ![o] = 0]
              /\ fetches' = [fetches EXCEPT ![o] = 0]
              /\ UNCHANGED cause
         [] OTHER ->
              /\ fetches' = [fetches EXCEPT ![o] = @ + 1]
              /\ IF LoopGuard(attempts[o] + 1)
                 THEN /\ attempts' = [attempts EXCEPT ![o] = @ + 1]
                      /\ pc' = pc
                      /\ cause' = [cause EXCEPT ![o] =
                                     IF answer = "error" THEN "job_error" ELSE @]
                 ELSE /\ attempts' = [attempts EXCEPT ![o] = 0]
                      /\ pc' = [pc EXCEPT ![o] = "catch"]
                      /\ cause' = [cause EXCEPT ![o] = "timeout"]
              /\ UNCHANGED data
  /\ UNCHANGED <<storeVars, result, resp, segVars, sideVars>>

\* one turn of the loop of pollForTranscriptionCompletion: the status request,
\* the test of the answer, the wait and attempts++; the throw after the loop
\* belongs to the turn that makes the guard false.  P is the set of payloads
\* a completed job can carry.
PollOnce(o, P) ==
  /\ pc[o] = "poll"
  /\ LoopGuard(attempts[o])
  /\ polled' = [polled EXCEPT ![o] = TRUE]
  /\ \E answer \in {"throws", "error", "processing", "completed"} :
       CASE answer = "throws" ->
              /\ pc' = [pc EXCEPT ![o] = "catch"]
              /\ cause' = [cause EXCEPT ![o] = "poll_error"]
              /\ attempts' = [attempts EXCEPT ![o] = 0]
              /\ fetches' = [fetches EXCEPT ![o] = 0]
              /\ UNCHANGED data
         [] answer = "error" ->
              /\ pc' = [pc EXCEPT ![o] = "catch"]
              /\ cause' = [cause EXCEPT ![o] = "job_error"]
              /\ attempts' = [attempts EXCEPT ![o] = 0]
              /\ fetches' = [fetches EXCEPT ![o] = 0]
              /\ UNCHANGED data
         [] answer = "completed" ->
              /\ \E p \in P : data' = [data EXCEPT ![o] = p]
              /\ pc' = [pc EXCEPT ![o] = "insert_transcript"]
              /\ attempts' = [attempts EXCEPT ![o] = 0]
              /\ fetches' = [fetches EXCEPT ![o] = 0]
              /\ UNCHANGED cause
         [] OTHER ->
              /\ fetches' = [fetches EXCEPT ![o] = @ + 1]
              /\ IF LoopGuard(attempts[o] + 1)
                 THEN /\ attempts' = [attempts EXCEPT ![o] = @ + 1]
                      /\ UNCHANGED <<pc, cause>>
                 ELSE /\ attempts' = [attempts EXCEPT ![o] = 0]
                      /\ pc' = [pc EXCEPT ![o] = "catch"]
                      /\ cause' = [cause EXCEPT ![o] = "timeout"]
              /\ UNCHANGED data
  /\ UNCHANGED <<storeVars, result, resp, segVars, sideVars>>

\* ------------------------------------------------------- processTranscription
\* Step 1: insert of the transcript row
InsertTranscript(o) ==
  /\ pc[o] = "insert_transcript"
  /\ \E ok \in BOOLEAN :
       IF ok
       THEN /\ transcripts' = transcripts \cup
                   {[id |-> o, episode_id |-> Episode, raw_transcript |-> data[o]]}
            /\ pc' = [pc EXCEPT ![o] =
                   IF Len(data[o].words) > 0 THEN "insert_segments"
                                             ELSE "update_episode"]
            /\ UNCHANGED <<cause, data>>
       ELSE /\ pc' = [pc EXCEPT ![o] = "process_catch"]
            /\ cause' = [cause EXCEPT ![o] = "transcript"]
            /\ data' = [data EXCEPT ![o] = NoData]
            /\ UNCHANGED transcripts
  /\ UNCHANGED <<status, duration, segments, hist, attempts, result,
                 resp, polled, fetches, segVars, sideVars>>

\* the rows the store makes of a segment list, each with an id of its own
Rows(segs) ==
  {[id |-> <<segs[i].transcript_id, i>>,
    transcript_id |-> segs[i].transcript_id,
    episode_id |-> segs[i].episode_id,
    start_time |-> segs[i].start_time,
    end_time |-> segs[i].end_time,
    text |-> segs[i].text] : i \in 1..Len(segs)}

\* Step 2 without the test of segmentsError
InsertSegmentsIgnoreError(o) ==
  /\ pc[o] = "insert_segments"
  /\ \E ok \in BOOLEAN :
       /\ segments' = IF ok
                       THEN segments \cup
                              Rows(Segmenter(o, Episode, data[o].words))
                       ELSE segments
       /\ cause' = [cause EXCEPT ![o] = IF ok THEN @ ELSE "segments"]
  /\ pc' = [pc EXCEPT ![o] = "update_episode"]
  /\ UNCHANGED <<status, duration, transcripts, hist, attempts, data, result,
                 resp, polled, fetches, segVars, sideVars>>

\* Step 2: the segmenter and the insert of all its segments in one statement
InsertSegments(o) ==
  /\ pc[o] = "insert_segments"
  /\ \E ok \in BOOLEAN :
       IF ok
       THEN /\ segments' = segments \cup Rows(Segmenter(o, Episode, data[o].words))
            /\ pc' = [pc EXCEPT ![o] = "update_episode"]
            /\ UNCHANGED <<cause, data>>
       ELSE /\ pc' = [pc EXCEPT ![o] = "process_catch"]
            /\ cause' = [cause EXCEPT ![o] = "segments"]
            /\ data' = [data EXCEPT ![o] = NoData]
            /\ UNCHANGED segments
  /\ UNCHANGED <<status, duration, transcripts, hist, attempts, result,
                 resp, polled, fetches, segVars, sideVars>>

\* the row update of Step 3 as the store applies it
CompleteEpisode(d) ==
  /\ WriteStatus("completed")
  /\ duration' = IF status = "none" THEN duration ELSE d

\* Step 3: one update sets status completed and the duration; on success
\* processTranscription returns true and transcribeEpisode returns success
UpdateEpisode(o) ==
  /\ pc[o] = "update_episode"
  /\ \E ok \in BOOLEAN :
       IF ok
       THEN /\ CompleteEpisode(CeilSeconds(data[o].audio_duration))
            /\ pc' = [pc EXCEPT ![o] = "done"]
            /\ result' = [result EXCEPT ![o] = "success"]
            /\ UNCHANGED cause
       ELSE /\ pc' = [pc EXCEPT ![o] = "process_catch"]
            /\ cause' = [cause EXCEPT ![o] = "episode"]
            /\ UNCHANGED <<status, duration, hist, result>>
  /\ data' = [data EXCEPT ![o] = NoData]
  /\ UNCHANGED <<transcripts, segments, attempts, resp, polled, fetches, segVars, sideVars>>

\* the catch of processTranscription: status failed, then rethrow
ProcessCatch(o) ==
  /\ pc[o] = "process_catch"
  /\ WriteStatus("failed")
  /\ pc' = [pc EXCEPT ![o] = "catch"]
  /\ UNCHANGED <<duration, transcripts, segments, attempts, data, result,
                 resp, polled, fetches, cause, segVars, sideVars>>

\* the catch of transcribeEpisode without its status write
TranscribeCatchNoWrite(o) ==
  /\ pc[o] = "catch"
  /\ pc' = [pc EXCEPT ![o] = "done"]
  /\ result' = [result EXCEPT ![o] = "failure"]
  /\ UNCHANGED <<storeVars, attempts, data, resp, polled, fetches, cause,
                 segVars, sideVars>>

\* the catch of transcribeEpisode: status failed, success false returned
TranscribeCatch(o) ==
  /\ pc[o] = "catch"
  /\ WriteStatus("failed")
  /\ pc' = [pc EXCEPT ![o] = "done"]
  /\ result' = [result EXCEPT ![o] = "failure"]
  /\ UNCHANGED <<duration, transcripts, segments, attempts, data, resp,
                 polled, fetches, cause, segVars, sideVars>>

\* a step of run o, the provider answering from P
Run(o, P) ==
  \/ MarkInProgress(o)
  \/ RequestTranscription(o)
  \/ PollOnce(o, P)
  \/ InsertTranscript(o)
  \/ InsertSegments(o)
  \/ UpdateEpisode(o)
  \/ ProcessCatch(o)
  \/ TranscribeCatch(o)

OrchStep(o) == Run(o, Payloads)

Next ==
  \/ \E o \in Orchs : UploadEpisode(o)
  \/ \E o \in Orchs : RetryRead(o)
  \/ \E o \in Orchs : RetryReset(o)
  \/ \E o \in Orchs : OrchStep(o)

Spec == Init /\ [][Next]_vars

\* every awaited call returns and the event loop resumes every run
LiveSpec == Spec /\ \A o \in Orchs : WF_vars(OrchStep(o))

\* the end-to-end scenario: one upload, its run, and a provider that answers a
\* completed job with 3 words spanning 45 seconds
ScenarioNext == UploadEpisode(1) \/ Run(1, ScenarioPayloads)

ScenarioSpec == Init /\ [][ScenarioNext]_vars

\* ------------------------------------------------- the segmenter on its own
\* the provider's word list grows by one time-ordered word
FeedWord ==
  /\ Len(segWords) < MaxWords
  /\ \E w \in Words :
       /\ TimeOrdered(Append(segWords, w))
       /\ segWords' = Append(segWords, w)
  /\ segOut' = <<>>
  /\ segRan' = FALSE
  /\ UNCHANGED <<storeVars, orchVars, sideVars>>

\* the segmenter is applied to the word list
RunSegmenter ==
  /\ ~segRan
  /\ segOut' = Segmenter(1, Episode, segWords)
  /\ segRan' = TRUE
  /\ UNCHANGED <<segWords, storeVars, orchVars, sideVars>>

SegNext == FeedWord \/ RunSegmenter

SegSpec == Init /\ [][SegNext]_vars

\* ----------------------------------------------- podcasts, clips, deletions
\* POST /podcasts: a title is required, then the row is inserted
CreatePodcast ==
  /\ ~podcast
  /\ delPod = "idle"
  /\ lib' = [lib EXCEPT !.podcast = TRUE]
  /\ UNCHANGED <<pipeVars, search, auth, reg>>

\* the segment texts a search result of the episode can carry
ResultTexts == {g.text : g \in {h \in segments : h.episode_id = Episode}}

\* POST /clips: the test of the body, then generateClip reads the episode row
ClipRead ==
  /\ clipPc = "idle"
  /\ nextClip < MaxClips
  /\ \E b \in ClipBodies, t \in ResultTexts \cup {NoText}, readOk \in BOOLEAN :
       lib' =
         IF b.episode_id = 0 \/ b.start_time = Undefined \/ b.end_time = Undefined
         THEN [lib EXCEPT !.clipResp = 400]
         ELSE IF readOk /\ status # "none"
         THEN [lib EXCEPT !.clipPc = "insert",
                          !.clipReq = [episode_id |-> b.episode_id,
                                       start_time |-> b.start_time,
                                       end_time |-> b.end_time,
                                       transcript_text |-> t]]
         ELSE [lib EXCEPT !.clipResp = 500]
  /\ UNCHANGED <<pipeVars, search, auth, reg>>

\* createClipRecord: the insert of the clip row, 201 with the row
ClipInsert ==
  /\ clipPc = "insert"
  /\ \E ok \in BOOLEAN :
       lib' =
         IF ok
         THEN [lib EXCEPT !.clips = @ \cup
                            {[id |-> nextClip + 1,
                              episode_id |-> clipReq.episode_id,
                              start_time |-> clipReq.start_time,
                              end_time |-> clipReq.end_time,
                              transcript_text |-> clipReq.transcript_text]},
                          !.nextClip = @ + 1,
                          !.clipResp = 201,
                          !.clipPc = "idle",
                          !.clipReq = NoClipReq]
         ELSE [lib EXCEPT !.clipResp = 500,
                          !.clipPc = "idle",
                          !.clipReq = NoClipReq]
  /\ UNCHANGED <<pipeVars, search, auth, reg>>

\* delete().eq('episode_id', e) on the three tables of descendants
SegmentsLeft(e) == {g \in segments : g.episode_id # e}
TranscriptsLeft(e) == {t \in transcripts : t.episode_id # e}
ClipsLeft(e) == {c \in clips : c.episode_id # e}

\* delete of the episode row(s) as the store applies it
DropEpisode ==
  /\ status' = "none"
  /\ duration' = NoDuration
  /\ hist' = <<>>

\* DeleteEpisodeSegments with transcript_text a live reference to the segments
DeleteEpisodeSegmentsLive ==
  /\ delEp = "idle"
  /\ status # "none"
  /\ \E ok \in BOOLEAN :
       /\ segments' = IF ok THEN SegmentsLeft(Episode) ELSE segments
       /\ lib' = [lib EXCEPT
                    !.delEp = "transcripts",
                    !.delEpFailed = ~ok,
                    !.clips = IF ok
                              THEN {[c EXCEPT !.transcript_text =
                                       IF c.episode_id = Episode
                                       THEN NoText ELSE @] : c \in clips}
                              ELSE @]
  /\ UNCHANGED <<status, duration, transcripts, hist>>
  /\ UNCHANGED <<orchVars, segVars, search, auth, reg>>

\* DELETE /episodes/:episodeId, first statement: the episode's segments; the
\* handler does not look at its error
DeleteEpisodeSegments ==
  /\ delEp = "idle"
  /\ status # "none"
  /\ \E ok \in BOOLEAN :
       /\ segments' = IF ok THEN SegmentsLeft(Episode) ELSE segments
       /\ lib' = [lib EXCEPT !.delEp = "transcripts", !.delEpFailed = ~ok]
  /\ UNCHANGED <<status, duration, transcripts, hist>>
  /\ UNCHANGED <<orchVars, segVars, search, auth, reg>>

\* second statement: the episode's transcripts
DeleteEpisodeTranscripts ==
  /\ delEp = "transcripts"
  /\ \E ok \in BOOLEAN :
       /\ transcripts' = IF ok THEN TranscriptsLeft(Episode) ELSE transcripts
       /\ lib' = [lib EXCEPT !.delEp = "clips", !.delEpFailed = (@ \/ ~ok)]
  /\ UNCHANGED <<status, duration, segments, hist>>
  /\ UNCHANGED <<orchVars, segVars, search, auth, reg>>

\* DeleteEpisodeClips as a step of a transaction: a failure ends the handler
DeleteEpisodeClipsAbort ==
  /\ delEp = "clips"
  /\ \E ok \in BOOLEAN :
       lib' = IF ok
              THEN [lib EXCEPT !.clips = ClipsLeft(Episode), !.delEp = "episode"]
              ELSE [lib EXCEPT !.delEp = "done", !.delEpResp = 400,
                               !.delEpFailed = TRUE]
  /\ UNCHANGED <<pipeVars, search, auth, reg>>

\* third statement: the episode's clips
DeleteEpisodeClips ==
  /\ delEp = "clips"
  /\ \E ok \in BOOLEAN :
       lib' = [lib EXCEPT !.clips = IF ok THEN ClipsLeft(Episode) ELSE @,
                          !.delEp = "episode",
                          !.delEpFailed = (@ \/ ~ok)]
  /\ UNCHANGED <<pipeVars, search, auth, reg>>

\* what the store does with a delete of a row that may have descendants: it
\* refuses, removes the row alone, or removes the descendants with it
RowDeletes == {"error", "row", "cascade"}

\* last statement: the episode row; its error is answered with 400
DeleteEpisodeRow ==
  /\ delEp = "episode"
  /\ \E store \in RowDeletes :
       CASE store = "error" ->
              /\ lib' = [lib EXCEPT !.delEp = "done", !.delEpResp = 400]
              /\ UNCHANGED storeVars
         [] store = "row" ->
              /\ DropEpisode
              /\ lib' = [lib EXCEPT !.delEp = "done", !.delEpResp = 200]
              /\ UNCHANGED <<transcripts, segments>>
         [] OTHER ->
              /\ DropEpisode
              /\ lib' = [lib EXCEPT !.delEp = "done", !.delEpResp = 200,
                                    !.clips = ClipsLeft(Episode)]
              /\ segments' = SegmentsLeft(Episode)
              /\ transcripts' = TranscriptsLeft(Episode)
  /\ UNCHANGED <<orchVars, segVars, search, auth, reg>>

\* DELETE /podcasts/:podcastId: the select of the podcast's episode ids
DeletePodcastSelect ==
  /\ delPod = "idle"
  /\ podcast
  /\ \E ok \in BOOLEAN :
       lib' =
         IF ok
         THEN [lib EXCEPT
                 !.delPodTodo = IF status = "none" THEN <<>> ELSE <<Episode>>,
                 !.delPod = IF status = "none" THEN "episodes" ELSE "segments"]
         ELSE [lib EXCEPT !.delPodResp = 400, !.delPod = "done"]
  /\ UNCHANGED <<pipeVars, search, auth, reg>>

\* the loop body, first statement: the segments of the episode at hand
DeletePodcastSegments ==
  /\ delPod = "segments"
  /\ \E ok \in BOOLEAN :
       segments' = IF ok THEN SegmentsLeft(Head(delPodTodo)) ELSE segments
  /\ lib' = [lib EXCEPT !.delPod = "transcripts"]
  /\ UNCHANGED <<status, duration, transcripts, hist>>
  /\ UNCHANGED <<orchVars, segVars, search, auth, reg>>

\* the loop body, second statement: its transcripts
DeletePodcastTranscripts ==
  /\ delPod = "transcripts"
  /\ \E ok \in BOOLEAN :
       transcripts' = IF ok THEN TranscriptsLeft(Head(delPodTodo))
                      ELSE transcripts
  /\ lib' = [lib EXCEPT !.delPod = "clips"]
  /\ UNCHANGED <<status, duration, segments, hist>>
  /\ UNCHANGED <<orchVars, segVars, search, auth, reg>>

\* the loop body, third statement: its clips; then the next episode
DeletePodcastClips ==
  /\ delPod = "clips"
  /\ \E ok \in BOOLEAN :
       lib' = [lib EXCEPT
                 !.clips = IF ok THEN ClipsLeft(Head(delPodTodo)) ELSE @,
                 !.delPodTodo = Tail(delPodTodo),
                 !.delPod = IF Tail(delPodTodo) = <<>> THEN "episodes"
                            ELSE "segments"]
  /\ UNCHANGED <<pipeVars, search, auth, reg>>

\* after the loop: delete().eq('podcast_id', podcastId) on table episodes; the
\* handler does not look at its error
DeletePodcastEpisodes ==
  /\ delPod = "episodes"
  /\ \E store \in RowDeletes :
       CASE store = "error" ->
              /\ lib' = [lib EXCEPT !.delPod = "podcast"]
              /\ UNCHANGED storeVars
         [] store = "row" ->
              /\ lib' = [lib EXCEPT !.delPod = "podcast"]
              /\ DropEpisode
              /\ UNCHANGED <<transcripts, segments>>
         [] OTHER ->
              /\ lib' = [lib EXCEPT !.delPod = "podcast",
                                    !.clips = ClipsLeft(Episode)]
              /\ DropEpisode
              /\ segments' = SegmentsLeft(Episode)
              /\ transcripts' = TranscriptsLeft(Episode)
  /\ UNCHANGED <<orchVars, segVars, search, auth, reg>>

\* the delete of the podcast row; its error is answered with 400
DeletePodcastRow ==
  /\ delPod = "podcast"
  /\ \E store \in RowDeletes :
       CASE store = "error" ->
              /\ lib' = [lib EXCEPT !.delPodResp = 400, !.delPod = "done"]
              /\ UNCHANGED storeVars
         [] store = "row" ->
              /\ lib' = [lib EXCEPT !.podcast = FALSE, !.delPodResp = 200,
                                    !.delPod = "done"]
              /\ UNCHANGED storeVars
         [] OTHER ->
              /\ lib' = [lib EXCEPT !.podcast = FALSE, !.delPodResp = 200,
                                    !.delPod = "done",
                                    !.clips = ClipsLeft(Episode)]
              /\ DropEpisode
              /\ segments' = SegmentsLeft(Episode)
              /\ transcripts' = TranscriptsLeft(Episode)
  /\ UNCHANGED <<orchVars, segVars, search, auth, reg>>

\* DELETE /podcasts/:podcastId of the second adminRoutes.js: the podcast row
\* is deleted and the descendants are left to the store, which refuses,
\* removes the row alone, or removes the descendants with it
DeletePodcastCascade ==
  /\ delPod = "idle"
  /\ podcast
  /\ \E store \in RowDeletes :
       CASE store = "error" ->
              /\ lib' = [lib EXCEPT !.delPodResp = 400, !.delPod = "done"]
              /\ UNCHANGED storeVars
         [] store = "row" ->
              /\ lib' = [lib EXCEPT !.delPodResp = 200, !.delPod = "done",
                                    !.podcast = FALSE]
              /\ UNCHANGED storeVars
         [] OTHER ->
              /\ lib' = [lib EXCEPT !.delPodResp = 200, !.delPod = "done",
                                    !.podcast = FALSE,
                                    !.clips = ClipsLeft(Episode)]
              /\ DropEpisode
              /\ segments' = SegmentsLeft(Episode)
              /\ transcripts' = TranscriptsLeft(Episode)
  /\ UNCHANGED <<orchVars, segVars, search, auth, reg>>

\* the library: one podcast, its episode and the episode's run, clips made by
\* visitors, and the two deletions
LibraryNext ==
  \/ CreatePodcast
  \/ UploadEpisode(1)
  \/ OrchStep(1)
  \/ ClipRead
  \/ ClipInsert
  \/ DeleteEpisodeSegments
  \/ DeleteEpisodeTranscripts
  \/ DeleteEpisodeClips
  \/ DeleteEpisodeRow
  \/ DeletePodcastSelect
  \/ DeletePodcastSegments
  \/ DeletePodcastTranscripts
  \/ DeletePodcastClips
  \/ DeletePodcastEpisodes
  \/ DeletePodcastRow
  \/ DeletePodcastCascade

LibrarySpec == Init /\ [][LibraryNext]_vars

\* ------------------------------------------- the run of another episode
\* POST /episodes for the episode Other: the row is inserted with status
\* pending and transcribeEpisode(Other) is started
OtherUpload ==
  /\ ep2.pc = "idle"
  /\ ep2.status = "none"
  /\ lib' = [lib EXCEPT !.ep2 = [@ EXCEPT !.status = "pending", !.pc = "mark"]]
  /\ UNCHANGED <<pipeVars, search, auth, reg>>

\* update({ transcription_status: s }).eq('id', Other)
OtherWriteStatus(s) == IF ep2.status = "none" THEN ep2.status ELSE s

\* transcribeEpisode(Other): the status write in_progress
OtherMarkInProgress ==
  /\ ep2.pc = "mark"
  /\ lib' = [lib EXCEPT !.ep2 = [@ EXCEPT
               !.status = OtherWriteStatus("in_progress"), !.pc = "request"]]
  /\ UNCHANGED <<pipeVars, search, auth, reg>>

\* requestTranscription for Other
OtherRequestTranscription ==
  /\ ep2.pc = "request"
  /\ \E submitOk \in BOOLEAN :
       lib' = [lib EXCEPT !.ep2.pc = IF submitOk THEN "poll" ELSE "catch"]
  /\ UNCHANGED <<pipeVars, search, auth, reg>>

\* one turn of the poll loop for Other's job
OtherPollOnce ==
  /\ ep2.pc = "poll"
  /\ LoopGuard(ep2.attempts)
  /\ \E answer \in {"throws", "error", "processing", "completed"} :
       CASE answer \in {"throws", "error"} ->
              lib' = [lib EXCEPT !.ep2 = [@ EXCEPT !.pc = "catch",
                                                   !.attempts = 0]]
         [] answer = "completed" ->
              \E p \in Payloads :
                lib' = [lib EXCEPT !.ep2 = [@ EXCEPT
                          !.pc = "insert_transcript", !.attempts = 0,
                          !.data = p]]
         [] OTHER ->
              lib' = [lib EXCEPT !.ep2 =
                        IF LoopGuard(ep2.attempts + 1)
                        THEN [@ EXCEPT !.attempts = @ + 1]
                        ELSE [@ EXCEPT !.attempts = 0, !.pc = "catch"]]
  /\ UNCHANGED <<pipeVars, search, auth, reg>>

\* processTranscription(Other), Step 1
OtherInsertTranscript ==
  /\ ep2.pc = "insert_transcript"
  /\ \E ok \in BOOLEAN :
       IF ok
       THEN /\ transcripts' = transcripts \cup
                   {[id |-> OtherRun, episode_id |-> Other,
                     raw_transcript |-> ep2.data]}
            /\ lib' = [lib EXCEPT !.ep2.pc =
                         IF Len(ep2.data.words) > 0 THEN "insert_segments"
                                                    ELSE "update_episode"]
       ELSE /\ lib' = [lib EXCEPT !.ep2 = [@ EXCEPT !.pc = "process_catch",
                                                    !.data = NoData]]
            /\ UNCHANGED transcripts
  /\ UNCHANGED <<status, duration, segments, hist>>
  /\ UNCHANGED <<orchVars, segVars, search, auth, reg>>

\* OtherInsertSegments with the rows keyed by the wrong episode
OtherInsertSegmentsMisfiled ==
  /\ ep2.pc = "insert_segments"
  /\ \E ok \in BOOLEAN :
       IF ok
       THEN /\ segments' = segments \cup
                   Rows(Segmenter(OtherRun, Episode, ep2.data.words))
            /\ lib' = [lib EXCEPT !.ep2.pc = "update_episode"]
       ELSE /\ lib' = [lib EXCEPT !.ep2 = [@ EXCEPT !.pc = "process_catch",
                                                    !.data = NoData]]
            /\ UNCHANGED segments
  /\ UNCHANGED <<status, duration, transcripts, hist>>
  /\ UNCHANGED <<orchVars, segVars, search, auth, reg>>

\* processTranscription(Other), Step 2
OtherInsertSegments ==
  /\ ep2.pc = "insert_segments"
  /\ \E ok \in BOOLEAN :
       IF ok
       THEN /\ segments' = segments \cup
                   Rows(Segmenter(OtherRun, Other, ep2.data.words))
            /\ lib' = [lib EXCEPT !.ep2.pc = "update_episode"]
       ELSE /\ lib' = [lib EXCEPT !.ep2 = [@ EXCEPT !.pc = "process_catch",
                                                    !.data = NoData]]
            /\ UNCHANGED segments
  /\ UNCHANGED <<status, duration, transcripts, hist>>
  /\ UNCHANGED <<orchVars, segVars, search, auth, reg>>

\* processTranscription(Other), Step 3
OtherUpdateEpisode ==
  /\ ep2.pc = "update_episode"
  /\ \E ok \in BOOLEAN :
       lib' = [lib EXCEPT !.ep2 =
                 IF ok
                 THEN [@ EXCEPT
                         !.status = OtherWriteStatus("completed"),
                         !.duration = IF ep2.status = "none" THEN @
                                      ELSE CeilSeconds(ep2.data.audio_duration),
                         !.pc = "done", !.result = "success", !.data = NoData]
                 ELSE [@ EXCEPT !.pc = "process_catch", !.data = NoData]]
  /\ UNCHANGED <<pipeVars, search, auth, reg>>

\* the catch of processTranscription(Other)
OtherProcessCatch ==
  /\ ep2.pc = "process_catch"
  /\ lib' = [lib EXCEPT !.ep2 = [@ EXCEPT
               !.status = OtherWriteStatus("failed"), !.pc = "catch"]]
  /\ UNCHANGED <<pipeVars, search, auth, reg>>

\* the catch of transcribeEpisode(Other)
OtherTranscribeCatch ==
  /\ ep2.pc = "catch"
  /\ lib' = [lib EXCEPT !.ep2 = [@ EXCEPT
               !.status = OtherWriteStatus("failed"), !.pc = "done",
               !.result = "failure"]]
  /\ UNCHANGED <<pipeVars, search, auth, reg>>

\* two episodes, each uploaded once, and their two runs interleaved
TwoNext ==
  \/ UploadEpisode(1)
  \/ OrchStep(1)
  \/ OtherUpload
  \/ OtherMarkInProgress
  \/ OtherRequestTranscription
  \/ OtherPollOnce
  \/ OtherInsertTranscript
  \/ OtherInsertSegments
  \/ OtherUpdateEpisode
  \/ OtherProcessCatch
  \/ OtherTranscribeCatch

TwoSpec == Init /\ [][TwoNext]_vars

\* ------------------------------------------------------------------ search
\* a query or a segment text is the list of its words, the pieces that
\* split(/\s+/) yields; the empty list is the empty string
QueryTokens == {"the", "Echo", "bonanza"}
MaxQueryWords == 2  \* longest query
MaxMatched == 2     \* most texts of SegmentTexts in one answer of the store

SeqsUpTo(S, n) == UNION {[1..k -> S] : k \in 0..n}

\* the query parameter: absent, or a string
Queries ==
  {NoQuery} \cup [present : {TRUE}, words : SeqsUpTo(QueryTokens, MaxQueryWords)]

\* a text of 12 words, 11 of them distinct, the last one said twice
LongText ==
  <<"alpha", "bravo", "charlie", "delta", "foxtrot", "golf", "hotel",
    "india", "juliet", "kilo", "lima", "lima">>

\* texts of stored segments
SegmentTexts ==
  {<<"the", "Echo">>, <<"world">>, <<"constructor", "constructor">>,
   <<"world", "Echo", "world">>}

\* the segment texts the store can answer getRelatedKeywords with
MatchedTexts == SeqsUpTo(SegmentTexts, MaxMatched) \cup {<<LongText>>}

\* the result lists searchTranscripts can return, by segment id
ResultLists == {<<>>, <<1>>, <<1, 2>>}

topK == 10          \* slice(0, 10)
segmentLimit == 50  \* limit(50)
minLength == 3      \* word.length > 3

\* String.prototype.toLowerCase
ToLowerCase(w) ==
  CASE w = "Echo" -> "echo"
    [] OTHER -> w

\* the names an object literal inherits whose value is not a number:
\* wordCounts[word] || 0 reads the inherited value for them
Inherited == {"constructor"}

LowerAll(ws) == [i \in DOMAIN ws |-> ToLowerCase(ws[i])]

\* flatMap(segment => segment.text.toLowerCase().split(/\s+/))
RECURSIVE FlatWords(_)
FlatWords(texts) ==
  IF texts = <<>> THEN <<>>
  ELSE LowerAll(Head(texts)) \o FlatWords(Tail(texts))

InSeq(w, ws) == \E i \in DOMAIN ws : ws[i] = w

\* the keys of wordCounts in the order of their first assignment
RECURSIVE KeysOf(_, _)
KeysOf(ws, seen) ==
  IF ws = <<>> THEN seen
  ELSE KeysOf(Tail(ws), IF InSeq(Head(ws), seen) THEN seen
                        ELSE Append(seen, Head(ws)))

Occurrences(w, ws) == Cardinality({i \in DOMAIN ws : ws[i] = w})

\* Object.entries(wordCounts): for an inherited name the value is the
\* inherited function with "1" appended, not a number
Entries(ws) ==
  LET keys == KeysOf(ws, <<>>)
  IN  [i \in DOMAIN keys |->
         [word |-> keys[i],
          count |-> Occurrences(keys[i], ws),
          numeric |-> keys[i] \notin Inherited]]

\* (a, b) => b[1] - a[1], NaN taken as 0
Compare(a, b) == IF a.numeric /\ b.numeric THEN b.count - a.count ELSE 0

\* the comparator orders the entries consistently
Consistent(es) ==
  \A i, j, k \in DOMAIN es :
    (Compare(es[i], es[j]) <= 0 /\ Compare(es[j], es[k]) <= 0)
      => Compare(es[i], es[k]) <= 0

\* the place of e in a sorted list: behind every entry that does not come
\* after it
RECURSIVE InsertSorted(_, _)
InsertSorted(sorted, e) ==
  IF sorted = <<>> THEN <<e>>
  ELSE IF Compare(Head(sorted), e) <= 0
       THEN <<Head(sorted)>> \o InsertSorted(Tail(sorted), e)
       ELSE <<e>> \o sorted

RECURSIVE StableSort(_, _)
StableSort(es, sorted) ==
  IF es = <<>> THEN sorted
  ELSE StableSort(Tail(es), InsertSorted(sorted, Head(es)))

Reorderings(es) ==
  {[i \in DOMAIN es |-> es[p[i]]] :
     p \in {q \in [DOMAIN es -> DOMAIN es] :
              \A i, j \in DOMAIN es : i # j => q[i] # q[j]}}

\* Array.prototype.sort: stable under a consistent comparator; under an
\* inconsistent one the order is left to the implementation
SortOutcomes(es) ==
  IF Consistent(es) THEN {StableSort(es, <<>>)} ELSE Reorderings(es)

\* queryWords of getRelatedKeywords
QueryWords(q) == SelectSeq(LowerAll(q), LAMBDA w : Len(w) > minLength)

\* allWords of getRelatedKeywords
AllWords(texts, qw) ==
  SelectSeq(SelectSeq(FlatWords(texts), LAMBDA w : Len(w) > minLength),
            LAMBDA w : ~InSeq(w, qw))

\* slice(0, 10).map(([word]) => word)
TopWords(es) ==
  [i \in 1..(IF Len(es) < topK THEN Len(es) ELSE topK) |-> es[i].word]

\* what getRelatedKeywords can return for the texts the store matched
RelatedKeywords(texts, qw) ==
  {TopWords(es) : es \in SortOutcomes(Entries(AllWords(texts, qw)))}

\* if (!query)
Falsy(q) == ~q.present \/ q.words = <<>>

\* the state of GET /search when a request arrives
Arrived(q) ==
  [pc |-> "search", query |-> q, results |-> <<>>, keywords |-> <<>>,
   resp |-> 0, called |-> {}, kwStore |-> "none", kwMatched |-> <<>>]

\* GET /search without the test of the query
SearchRequestNoCheck ==
  /\ searchPc \in {"idle", "done"}
  /\ \E q \in Queries : search' = Arrived(q)
  /\ UNCHANGED <<pipeVars, lib, auth, reg>>

\* GET /search: a request arrives and its query is tested
SearchRequest ==
  /\ searchPc \in {"idle", "done"}
  /\ \E q \in Queries :
       search' = IF Falsy(q)
                 THEN [Arrived(q) EXCEPT !.resp = 400, !.pc = "done"]
                 ELSE Arrived(q)
  /\ UNCHANGED <<pipeVars, lib, auth, reg>>

\* GET /search with getRelatedKeywords called for every result list
SearchTranscriptsAlways ==
  /\ searchPc = "search"
  /\ \E throws \in BOOLEAN, rs \in ResultLists :
       search' =
         IF throws
         THEN [search EXCEPT !.called = @ \cup {"searchTranscripts"},
                             !.resp = 500, !.pc = "done"]
         ELSE [search EXCEPT !.called = @ \cup {"searchTranscripts"},
                             !.results = rs, !.pc = "keywords"]
  /\ UNCHANGED <<pipeVars, lib, auth, reg>>

\* searchTranscripts returns or throws; an empty result list is answered at
\* once with empty related_keywords
SearchTranscripts ==
  /\ searchPc = "search"
  /\ \E throws \in BOOLEAN, rs \in ResultLists :
       search' =
         IF throws
         THEN [search EXCEPT !.called = @ \cup {"searchTranscripts"},
                             !.resp = 500, !.pc = "done"]
         ELSE IF Len(rs) > 0
         THEN [search EXCEPT !.called = @ \cup {"searchTranscripts"},
                             !.results = rs, !.pc = "keywords"]
         ELSE [search EXCEPT !.called = @ \cup {"searchTranscripts"},
                             !.results = rs, !.pc = "done", !.resp = 200]
  /\ UNCHANGED <<pipeVars, lib, auth, reg>>

\* the answer of GET /search with what getRelatedKeywords returned
Answered(kws, store, texts) ==
  [search EXCEPT !.called = @ \cup {"getRelatedKeywords"},
                 !.keywords = kws, !.kwStore = store, !.kwMatched = texts,
                 !.resp = 200, !.pc = "done"]

\* getRelatedKeywords and the answer of GET /search
GetRelatedKeywords ==
  /\ searchPc = "keywords"
  /\ LET qw == QueryWords(query.words)
     IN  IF Len(qw) = 0
         THEN search' = Answered(<<>>, "none", <<>>)
         ELSE \E error \in BOOLEAN, texts \in MatchedTexts :
                IF error
                THEN search' = Answered(<<>>, "error", <<>>)
                ELSE /\ Len(texts) <= segmentLimit
                     /\ \E kws \in RelatedKeywords(texts, qw) :
                          search' = Answered(kws, "rows", texts)
  /\ UNCHANGED <<pipeVars, lib, auth, reg>>

SearchNext == SearchRequest \/ SearchTranscripts \/ GetRelatedKeywords

SearchSpec == Init /\ [][SearchNext]_vars

\* ---------------------------------------------------------- authenticateAdmin
\* request r is the next to arrive
ArrivesNext(p, r) ==
  /\ p[r] = "idle"
  /\ \A q \in Reqs : q < r => p[q] # "idle"

\* a request to an admin route: the header is read, tested and verified
AuthVerify(r) ==
  /\ ArrivesNext(authPc, r)
  /\ \E t \in Tokens :
       auth' = [auth EXCEPT ![r] =
                  IF ~t.present \/ ~t.valid
                  THEN [@ EXCEPT !.token = t, !.resp = 401, !.pc = "done"]
                  ELSE [@ EXCEPT !.token = t, !.pc = "lookup"]]
  /\ UNCHANGED <<pipeVars, lib, search, reg>>

\* AuthLookup without the test of the role
AuthLookupNoRole(r) ==
  /\ authPc[r] = "lookup"
  /\ \E a \in UserAnswers :
       auth' = [auth EXCEPT ![r] =
                  IF a.error \/ ~a.found
                  THEN [@ EXCEPT !.row = a, !.resp = 401, !.pc = "done"]
                  ELSE [@ EXCEPT !.row = a, !.pc = "next"]]
  /\ UNCHANGED <<pipeVars, lib, search, reg>>

\* the select of the user row and the tests of its answer
AuthLookup(r) ==
  /\ authPc[r] = "lookup"
  /\ \E a \in UserAnswers :
       auth' = [auth EXCEPT ![r] =
                  IF a.error \/ ~a.found
                  THEN [@ EXCEPT !.row = a, !.resp = 401, !.pc = "done"]
                  ELSE IF a.role # "admin"
                  THEN [@ EXCEPT !.row = a, !.resp = 403, !.pc = "done"]
                  ELSE [@ EXCEPT !.row = a, !.pc = "next"]]
  /\ UNCHANGED <<pipeVars, lib, search, reg>>

\* next(): the route handler, here POST /podcasts, inserts its row
AdminHandler(r) ==
  /\ authPc[r] = "next"
  /\ \E ok \in BOOLEAN :
       /\ lib' = [lib EXCEPT !.podcast = (@ \/ ok)]
       /\ auth' = [auth EXCEPT ![r] =
                     [@ EXCEPT !.ran = TRUE, !.pc = "done",
                               !.resp = IF ok THEN 201 ELSE 400]]
  /\ UNCHANGED <<pipeVars, search, reg>>

AuthNext ==
  \/ \E r \in Reqs : AuthVerify(r)
  \/ \E r \in Reqs : AuthLookup(r)
  \/ \E r \in Reqs : AdminHandler(r)

AuthSpec == Init /\ [][AuthNext]_vars

\* -------------------------------------------------------------- POST /register
\* the test of the body and the select of a user with the email; its error is
\* not looked at
RegisterCheck(r) ==
  /\ ArrivesNext(regPc, r)
  /\ \E email \in Emails \cup {NoEmail}, password, selectOk \in BOOLEAN :
       reg' = [reg EXCEPT !.reqs[r] =
                 IF email = NoEmail \/ ~password
                 THEN [pc |-> "done", email |-> email, resp |-> 400]
                 ELSE IF /\ selectOk
                         /\ Cardinality({u \in users : u.email = email}) = 1
                 THEN [pc |-> "done", email |-> email, resp |-> 400]
                 ELSE [pc |-> "hash", email |-> email, resp |-> 0]]
  /\ UNCHANGED <<pipeVars, lib, search, auth>>

\* bcrypt.genSalt and bcrypt.hash
RegisterHash(r) ==
  /\ regPc[r] = "hash"
  /\ \E ok \in BOOLEAN :
       reg' = [reg EXCEPT !.reqs[r] =
                 IF ok THEN [@ EXCEPT !.pc = "insert"]
                 ELSE [@ EXCEPT !.pc = "done", !.resp = 500]]
  /\ UNCHANGED <<pipeVars, lib, search, auth>>

\* the insert of the user row with role admin
RegisterInsert(r) ==
  /\ regPc[r] = "insert"
  /\ \E ok \in BOOLEAN :
       reg' =
         IF ok
         THEN [reg EXCEPT !.users = @ \cup {[id |-> Cardinality(users) + 1,
                                             email |-> regEmail[r],
                                             role |-> "admin"]},
                          !.reqs[r] = [@ EXCEPT !.pc = "done", !.resp = 201]]
         ELSE [reg EXCEPT !.reqs[r] = [@ EXCEPT !.pc = "done", !.resp = 400]]
  /\ UNCHANGED <<pipeVars, lib, search, auth>>

RegisterNext ==
  \/ \E r \in Reqs : RegisterCheck(r)
  \/ \E r \in Reqs : RegisterHash(r)
  \/ \E r \in Reqs : RegisterInsert(r)

RegisterSpec == Init /\ [][RegisterNext]_vars

\* ------------------------------------------------------------------ claims
\* run 1 is the only run: no retry has passed its read of the episode
Alone == \A o \in Orchs \ {1} : pc[o] = "idle"

PersistCauses == {"transcript", "segments", "episode"}

\* d is ms / 1000 rounded up
IsCeil(d, ms) == d * 1000 >= ms /\ (d - 1) * 1000 < ms

\* the rows run o has in the store
TranscriptsOf(o) == {t \in transcripts : t.id = o}
SegmentsOf(o) == {g \in segments : g.transcript_id = o}

\* C1: every run of transcribeEpisode that has started comes to its end, and
\* at its end the episode's status is completed or failed, whatever the
\* provider and the store answer, given that every awaited call returns.
C1_ReachesTerminal ==
  \A o \in Orchs : (pc[o] = "mark") ~> (pc[o] = "done" /\ status \in Terminal)

C1_Witness ==
  \E o \in Orchs : pc[o] = "done" /\ cause[o] = "timeout" /\ status = "failed"

\* C2: while run 1 is the only run of the episode, the distinct status values
\* are pending, then in_progress, then one of completed and failed;
\* in_progress is there before the provider is called and nothing follows the
\* terminal value.
C2_StatusSequence ==
  (Alone /\ pc[1] # "idle") =>
    /\ hist \in { <<"pending">>, <<"pending", "in_progress">>,
                  <<"pending", "in_progress", "completed">>,
                  <<"pending", "in_progress", "failed">> }
    /\ status = hist[Len(hist)]
    /\ (pc[1] = "mark") <=> (hist = <<"pending">>)
    /\ (pc[1] = "done") => (Len(hist) = 3)
    /\ (Len(hist) = 3) => (pc[1] \in {"catch", "done"})

C2_Witness ==
  /\ Alone
  /\ pc[1] = "done"
  /\ hist = <<"pending", "in_progress", "completed">>

\* C3: after a failed submit the run neither polls the provider nor writes a
\* transcript or segment row; its one further step sets the status to failed
\* and ends the run.
C3_SubmitFailure ==
  [][\A o \in Orchs :
       /\ (cause'[o] = "submit") =>
            /\ ~polled'[o]
            /\ pc'[o] \in {"catch", "done"}
            /\ result'[o] # "success"
            /\ \A t \in transcripts' : t.id # o
            /\ \A g \in segments' : g.transcript_id # o
       /\ (cause[o] = "submit" /\ pc'[o] # pc[o]) =>
            /\ status' = "failed"
            /\ pc'[o] = "done"
            /\ result'[o] = "failure"]_vars

C3_Witness ==
  \E o \in Orchs :
    /\ cause[o] = "submit"
    /\ pc[o] = "done"
    /\ status = "failed"
    /\ ~polled[o]

\* C4: a run asks for the job status at most 20 times; the 20th answer that is
\* neither completed nor error ends the loop with a timeout, and the run then
\* sets the status to failed and ends.
C4_PollCeiling ==
  [][\A o \in Orchs :
       /\ fetches'[o] <= maxAttempts
       /\ (pc[o] = "poll" /\ pc'[o] = "poll" /\ attempts'[o] # attempts[o]) =>
            (fetches'[o] = fetches[o] + 1)
       /\ (pc[o] = "poll" /\ pc'[o] = "poll" /\ attempts'[o] = attempts[o]) =>
            (fetches'[o] = fetches[o])
       /\ (pc[o] = "poll" /\ pc'[o] # "poll") => (fetches[o] < maxAttempts)
       /\ (pc[o] = "poll" /\ fetches'[o] = maxAttempts) => (cause'[o] = "timeout")
       /\ (cause'[o] = "timeout") =>
            (fetches'[o] = maxAttempts /\ pc'[o] \in {"catch", "done"})
       /\ (cause[o] = "timeout" /\ pc'[o] # pc[o]) =>
            /\ status' = "failed"
            /\ pc'[o] = "done"
            /\ result'[o] = "failure"]_vars

C4_Witness ==
  \E o \in Orchs :
    /\ cause[o] = "timeout"
    /\ fetches[o] = maxAttempts
    /\ pc[o] = "done"
    /\ status = "failed"

\* C5: once a persistence step of processTranscription has failed, the run
\* never writes completed: each of its remaining steps writes failed, it
\* returns failure, and when it is the only run the status stays failed.
C5_PersistenceFailure ==
  [][\A o \in Orchs :
       /\ (cause'[o] \in PersistCauses) =>
            /\ pc'[o] \in {"process_catch", "catch", "done"}
            /\ result'[o] # "success"
            /\ (pc'[o] = "done") => (result'[o] = "failure")
       /\ (cause[o] \in PersistCauses /\ pc'[o] # pc[o]) => (status' = "failed")
       /\ (Alone' /\ cause'[1] \in PersistCauses
             /\ pc'[1] \in {"catch", "done"}) => (status' = "failed")]_vars

C5_Witness ==
  \E o \in Orchs :
    /\ cause[o] = "episode"
    /\ pc[o] = "done"
    /\ status = "failed"
    /\ TranscriptsOf(o) # {}

\* C6: whenever a run has ended in failure, no transcript row and no segment
\* row written by that run is in the store.
C6_AllOrNothing ==
  \A o \in Orchs :
    (pc[o] = "done" /\ result[o] = "failure") =>
      (TranscriptsOf(o) = {} /\ SegmentsOf(o) = {})

\* C7: the step that ends a run in success sets the status to completed and
\* the duration to audio_duration / 1000 rounded up, in one write; completed
\* is written by no other step and the duration changes with no other write.
C7_CompletedWithDuration ==
  [][/\ \A o \in Orchs :
          (pc[o] = "update_episode" /\ pc'[o] = "done") =>
            /\ status' = "completed"
            /\ IsCeil(duration', data[o].audio_duration)
            /\ result'[o] = "success"
     /\ (status' = "completed" /\ status # "completed") =>
          \E o \in Orchs : pc[o] = "update_episode" /\ pc'[o] = "done"
     /\ (duration' # duration) =>
          \E o \in Orchs : pc[o] = "update_episode" /\ pc'[o] = "done"]_vars

C7_Witness ==
  /\ status = "completed"
  /\ duration = 45
  /\ \E t \in transcripts : t.raw_transcript.audio_duration = 44001

\* the words of the payload run 1 stored
StoredWords == (CHOOSE t \in TranscriptsOf(1) : TRUE).raw_transcript.words
StoredAudio == (CHOOSE t \in TranscriptsOf(1) : TRUE).raw_transcript.audio_duration
EpisodeSegments == {g \in segments : g.episode_id = Episode}

\* C10 as stated: the scenario ends with exactly 2 segments.
C10_ExactlyTwo ==
  (pc[1] = "done" /\ result[1] = "success") =>
    /\ hist = <<"pending", "in_progress", "completed">>
    /\ Cardinality(EpisodeSegments) = 2
    /\ IsCeil(duration, StoredAudio)

\* C10, amended: when the provider answers with 3 words spanning 45 seconds
\* and every persistence step succeeds, the status passes pending,
\* in_progress, completed, 2 or 3 segments are persisted (2 whenever the
\* second word is shorter than 15 seconds), and the duration is the payload's
\* audio_duration / 1000 rounded up.
C10_Scenario ==
  (pc[1] = "done" /\ result[1] = "success") =>
    /\ hist = <<"pending", "in_progress", "completed">>
    /\ status = "completed"
    /\ Cardinality(EpisodeSegments) \in {2, 3}
    /\ (StoredWords[2].end - StoredWords[2].start < 15000) =>
         (Cardinality(EpisodeSegments) = 2)
    /\ IsCeil(duration, StoredAudio)

C10_Witness ==
  /\ pc[1] = "done"
  /\ result[1] = "success"
  /\ Cardinality(EpisodeSegments) = 2
  /\ StoredWords[2].end - StoredWords[2].start < 15000
  /\ StoredAudio = 44001
  /\ duration = 45

\* the words of a segment text
WordsOf(text) == SelectSeq(text, LAMBDA t : t # SP)

RECURSIVE ConcatTexts(_)
ConcatTexts(segs) ==
  IF segs = <<>> THEN <<>>
  ELSE WordsOf(Head(segs).text) \o ConcatTexts(Tail(segs))

C9_SingleWord ==
  (segRan /\ Len(segWords) = 1) =>
    segOut = << [transcript_id |-> 1, episode_id |-> Episode,
                 start_time |-> segWords[1].start,
                 end_time |-> segWords[1].end,
                 text |-> <<segWords[1].text>>] >>

C9_Witness ==
  /\ segRan
  /\ Len(segWords) = 1
  /\ segWords[1].start > 0
  /\ segWords[1].end - segWords[1].start > segmentDurationMs
  /\ Len(segOut) = 1

\* C11: in every reachable state the episode has at most one transcript row,
\* after any sequence of uploads, runs and retry-transcription requests.
C11_OneTranscript ==
  Cardinality({t \in transcripts : t.episode_id = Episode}) <= 1

\* the rows that belong to the podcast's episode
Descendants ==
  /\ status = "none"
  /\ {t \in transcripts : t.episode_id = Episode} = {}
  /\ {g \in segments : g.episode_id = Episode} = {}
  /\ {c \in clips : c.episode_id = Episode} = {}

\* C12: when the podcast row is removed by a DELETE that answers success, the
\* episode, transcript, segment and clip rows of the podcast were removed
\* before it, and none remains.
C12_DescendantsFirst ==
  [][(podcast /\ ~podcast' /\ delPodResp' = 200)
       => (Descendants /\ Descendants')]_vars

\* C13: no clip row is stored for a request whose start_time is greater than
\* or equal to its end_time.
C13_RejectsInverted ==
  \A c \in clips : c.start_time < c.end_time

\* a step of a deletion that removes clips: the third statement of
\* DELETE /episodes/:episodeId or of the loop of DELETE /podcasts/:podcastId,
\* or the store's cascade
DeletesClips ==
  \/ delEp = "clips" /\ delEp' = "episode"
  \/ delEp = "episode" /\ delEp' = "done" /\ status' = "none"
  \/ delPod = "clips" /\ delPod' # "clips"
  \/ delPod = "episodes" /\ delPod' = "podcast" /\ status' = "none"
  \/ delPod \in {"idle", "podcast"} /\ delPod' = "done" /\ podcast /\ ~podcast'

C15_EmptyQueryRejected ==
  (searchPc # "idle" /\ Falsy(query))
    => (searchPc = "done" /\ searchResp = 400 /\ called = {})

C15_Witness ==
  /\ searchPc = "done"
  /\ query.present
  /\ query.words = <<>>
  /\ searchResp = 400

\* C16: an answer of GET /search with an empty result list has an empty
\* related_keywords list.
C16_EmptyResultsNoKeywords ==
  (searchPc = "done" /\ searchResp = 200 /\ results = <<>>)
    => keywords = <<>>

C16_Witness ==
  /\ searchPc = "done"
  /\ searchResp = 200
  /\ results = <<>>
  /\ QueryWords(query.words) # <<>>

\* occurrences of a word in the texts the store matched
MatchedCount(w) == Occurrences(w, FlatWords(kwMatched))

\* C17: getRelatedKeywords returns at most 10 distinct words, each longer than
\* 3 characters, none a lower-cased query word, in the order of non-increasing
\* occurrences in the matched segments; it returns the empty list without
\* asking the store when no query word is longer than 3 characters, and the
\* empty list when the store reports an error.
C17_RelatedKeywords ==
  (searchPc = "done" /\ "getRelatedKeywords" \in called) =>
    /\ Len(keywords) <= 10
    /\ Len(kwMatched) <= 50
    /\ \A i, j \in DOMAIN keywords : i # j => keywords[i] # keywords[j]
    /\ \A i \in DOMAIN keywords :
         /\ Len(keywords[i]) > 3
         /\ ~InSeq(keywords[i], LowerAll(query.words))
    /\ \A i, j \in DOMAIN keywords :
         i < j => MatchedCount(keywords[i]) >= MatchedCount(keywords[j])
    /\ (\A i \in DOMAIN query.words : Len(query.words[i]) <= 3)
         => (keywords = <<>> /\ kwStore = "none")
    /\ kwStore = "error" => keywords = <<>>

\* C18: the route handler behind authenticateAdmin runs only for a request
\* whose token verifies and whose user row is found with role admin; without
\* a token, with a token that does not verify or with no user row the answer
\* is 401, with a user row of another role it is 403, and in these cases the
\* handler does not run and the step that answers changes no row.
C18_AdminOnly ==
  [][\A r \in Reqs :
       /\ handlerRan'[r] =>
            /\ authToken'[r].present /\ authToken'[r].valid
            /\ authRow'[r].found /\ authRow'[r].role = "admin"
       /\ (authPc'[r] = "done" /\ ~handlerRan'[r]) =>
            /\ authResp'[r] = IF /\ authToken'[r].present
                                 /\ authToken'[r].valid
                                 /\ authRow'[r].found
                              THEN 403 ELSE 401
            /\ authResp'[r] = 403 => authRow'[r].role # "admin"
       /\ (authResp'[r] \in {401, 403} /\ authResp[r] = 0) =>
            UNCHANGED <<podcast, clips, users, storeVars>>]_vars

C18_Witness ==
  /\ authPc[1] = "done" /\ authResp[1] = 403 /\ ~handlerRan[1]
  /\ authPc[2] = "done" /\ handlerRan[2] /\ podcast

\* C19: a retry-transcription request that reads the episode changes nothing
\* by its read, then sets the status to pending, whatever it was, answers 200
\* and starts a run of transcribeEpisode from its first statement, which
\* writes in_progress before the provider is called; a request that cannot
\* read the episode answers 400, starts no run and changes no status.
C19_RetryRestarts ==
  [][\A o \in Orchs :
       /\ (pc[o] = "idle" /\ pc'[o] = "reset") =>
            (status \in Statuses /\ UNCHANGED <<status, duration>>)
       /\ (pc[o] = "reset" /\ pc'[o] # "reset") =>
            /\ status' = "pending"
            /\ pc'[o] = "mark"
            /\ resp'[o] = 200
            /\ attempts'[o] = 0 /\ ~polled'[o] /\ result'[o] = "none"
            /\ data'[o] = NoData
       /\ (pc[o] = "mark" /\ pc'[o] # "mark") =>
            (pc'[o] = "request" /\ status' = "in_progress")
       /\ (pc[o] = "request" /\ pc'[o] # "request") =>
            pc'[o] \in {"poll", "catch"}
       /\ (pc[o] = "idle" /\ pc'[o] = "idle" /\ resp'[o] # resp[o]) =>
            (resp'[o] = 400 /\ UNCHANGED <<status, duration, transcripts,
                                            segments>>)]_vars

C19_Witness ==
  /\ result[1] = "success"
  /\ pc[2] = "mark"
  /\ resp[2] = 200
  /\ status = "pending"

\* C20: in every reachable state at most one user row exists per email.
C20_UniqueEmail ==
  \A u, v \in users : u.email = v.email => u = v

\* what ends the poll loop other than a completed job or the ceiling
PollFailures == {"poll_error", "job_error"}

\* C21: a status request that throws, or that answers a job status of error,
\* takes the run out of the poll loop at once: the run makes no further
\* status request and no new submit, writes no transcript or segment row, and
\* its one further step sets the status to failed and ends the run in failure.
C21_PollFailure ==
  [][\A o \in Orchs :
       /\ (pc[o] = "poll" /\ cause'[o] \in PollFailures) => (pc'[o] = "catch")
       /\ (cause'[o] \in PollFailures) =>
            /\ pc'[o] \in {"catch", "done"}
            /\ result'[o] # "success"
            /\ TranscriptsOf(o)' = {}
            /\ SegmentsOf(o)' = {}
       /\ (cause[o] \in PollFailures) =>
            /\ fetches'[o] = fetches[o]
            /\ attempts'[o] = attempts[o]
       /\ (cause[o] \in PollFailures /\ pc'[o] # pc[o]) =>
            /\ status' = "failed"
            /\ pc'[o] = "done"
            /\ result'[o] = "failure"]_vars

C21_Witness ==
  /\ \E o \in Orchs :
       cause[o] = "job_error" /\ pc[o] = "done" /\ status = "failed"
  /\ \E o \in Orchs :
       cause[o] = "poll_error" /\ pc[o] = "done" /\ polled[o]

\* the number of words of segment k of the output, and the index of its first
\* word in the input
SegCount(k) == Len(WordsOf(segOut[k].text))

RECURSIVE FirstIndex(_)
FirstIndex(k) == IF k = 1 THEN 1 ELSE FirstIndex(k - 1) + SegCount(k - 1)

\* the segment of the output that holds input word i
SegmentOf(i) ==
  CHOOSE k \in 1..Len(segOut) :
    FirstIndex(k) <= i /\ i < FirstIndex(k) + SegCount(k)

\* the running segment was closed before input word i
ClosedBefore(i) == \E k \in 2..Len(segOut) : FirstIndex(k) = i

\* C22: the running segment is closed before a word exactly when it is not
\* empty and the word's end is more than 30 seconds after the segment's
\* start; a word that ends exactly 30 seconds after the start stays in the
\* segment; the output is a function of the word list.
C22_BoundaryRule ==
  segRan =>
    /\ segOut = Segmenter(1, Episode, segWords)
    /\ \A i \in 1..Len(segWords) :
         ClosedBefore(i) <=>
           /\ i > 1
           /\ segWords[i].end - segOut[SegmentOf(i - 1)].start_time
                > segmentDurationMs

\* the index in the input of the last word of segment k of the output
LastIndex(k) == FirstIndex(k) + SegCount(k) - 1

\* C23: the segments partition the word list: each is a non-empty run of
\* consecutive words, in order and with no word left out or taken twice, from
\* its first word's start to its last word's end; the empty word list yields
\* no segment.
C23_Partition ==
  segRan =>
    /\ (segWords = <<>>) => (segOut = <<>>)
    /\ (segWords # <<>>) =>
         /\ Len(segOut) >= 1
         /\ LastIndex(Len(segOut)) = Len(segWords)
    /\ \A k \in 1..Len(segOut) :
         /\ SegCount(k) >= 1
         /\ LastIndex(k) <= Len(segWords)
         /\ segOut[k].start_time = segWords[FirstIndex(k)].start
         /\ segOut[k].end_time = segWords[LastIndex(k)].end
         /\ WordsOf(segOut[k].text) =
              [j \in 1..SegCount(k) |-> segWords[FirstIndex(k) + j - 1].text]

C23_Witness ==
  /\ segRan
  /\ Len(segOut) = 2
  /\ SegCount(1) = 1
  /\ SegCount(2) = 2
  /\ segWords[2].text # segWords[3].text

\* C24: a segment of two or more words spans at most 30 seconds from its
\* start_time to its end_time; a longer segment holds one word only.
C24_SpanBound ==
  segRan =>
    \A k \in 1..Len(segOut) :
      /\ (SegCount(k) >= 2) =>
           (segOut[k].end_time - segOut[k].start_time <= segmentDurationMs)
      /\ (segOut[k].end_time - segOut[k].start_time > segmentDurationMs) =>
           (SegCount(k) = 1)

C24_Witness ==
  /\ segRan
  /\ \E k \in 1..Len(segOut) :
       /\ SegCount(k) = 2
       /\ segOut[k].end_time - segOut[k].start_time = segmentDurationMs
  /\ \E k \in 1..Len(segOut) :
       /\ SegCount(k) = 1
       /\ segOut[k].end_time - segOut[k].start_time > segmentDurationMs

\* run q is between its write of in_progress and its terminal write
InFlight(q) ==
  pc[q] \in {"request", "poll", "insert_transcript", "insert_segments",
             "update_episode", "process_catch"}

\* C25: a run of the episode in flight refuses nothing: a retry-transcription
\* request can still read the episode, reset the status and start a second
\* run, and two runs in flight can each take their next step, so that both
\* submit, poll and persist.
C25_Unguarded ==
  \A o, q \in Orchs :
    (o # q /\ InFlight(q)) =>
      /\ NextSlot(o) => ENABLED (RetryRead(o) /\ pc'[o] = "reset")
      /\ (pc[o] = "reset") => ENABLED (RetryReset(o) /\ pc'[o] = "mark")
      /\ (pc[o] = "mark") => ENABLED MarkInProgress(o)
      /\ InFlight(o) => ENABLED OrchStep(o)

C25_Witness ==
  /\ pc[1] = "update_episode"
  /\ pc[2] = "update_episode"
  /\ polled[1] /\ polled[2]
  /\ TranscriptsOf(1) # {} /\ TranscriptsOf(2) # {}
  /\ SegmentsOf(1) # {} /\ SegmentsOf(2) # {}

\* the rows of the two shared tables that are keyed by episode e
RowsOf(e) ==
  <<{t \in transcripts : t.episode_id = e}, {g \in segments : g.episode_id = e}>>

\* what the store holds of the episode followed, and of the other episode
EpisodeState == <<status, duration, RowsOf(Episode)>>
OtherState == <<ep2.status, ep2.duration, RowsOf(Other)>>

\* the run of the episode followed, or its request, takes a step; the run of
\* the other episode, or its request, takes a step
RunStepped == <<pc[1], attempts[1], resp[1]>>' # <<pc[1], attempts[1], resp[1]>>
OtherStepped == <<ep2.pc, ep2.attempts>>' # <<ep2.pc, ep2.attempts>>

\* the outcome of a run that ran alone: the status, and after a success the
\* duration and the segments of the payload it stored
OutcomeAlone(st, dur, runPc, res, tid, e) ==
  /\ (runPc = "done" /\ res = "failure") => (st = "failed")
  /\ (runPc = "done" /\ res = "success") =>
       /\ st = "completed"
       /\ \E t \in transcripts :
            /\ {u \in transcripts : u.episode_id = e} = {t}
            /\ t.id = tid
            /\ IsCeil(dur, t.raw_transcript.audio_duration)
            /\ {g \in segments : g.episode_id = e}
                 = Rows(Segmenter(tid, e, t.raw_transcript.words))
  /\ (runPc \in {"request", "poll", "insert_transcript", "insert_segments",
                 "update_episode"}) => (st = "in_progress")

\* C26: a step of the run of one episode leaves the status, the duration, the
\* transcript rows and the segment rows of the other episode as they were,
\* in every interleaving of the two runs, and each episode ends as its run
\* alone would leave it.
C26_Independent ==
  [][/\ RunStepped => (OtherState' = OtherState)
     /\ OtherStepped => (EpisodeState' = EpisodeState)
     /\ OutcomeAlone(status', duration', pc'[1], result'[1], 1, Episode)
     /\ OutcomeAlone(ep2'.status, ep2'.duration, ep2'.pc, ep2'.result,
                     OtherRun, Other)
     /\ hist' \in { <<>>, <<"pending">>, <<"pending", "in_progress">>,
                    <<"pending", "in_progress", "completed">>,
                    <<"pending", "in_progress", "failed">> }]_vars

C26_Witness ==
  /\ pc[1] = "done" /\ result[1] = "success"
  /\ ep2.pc = "done" /\ ep2.result = "failure"
  /\ RowsOf(Episode)[2] # {}
  /\ RowsOf(Other)[2] # {}

\* the segment, transcript and clip rows keyed by the episode
EpisodeRows ==
  <<{g \in segments : g.episode_id = Episode},
    {t \in transcripts : t.episode_id = Episode},
    {c \in clips : c.episode_id = Episode}>>

\* rows whose episode no longer exists
Orphans == IF status = "none" THEN EpisodeRows ELSE <<{}, {}, {}>>

\* C27: the deletion of an episode is four statements applied one by one: a
\* statement on segments, transcripts or clips that fails changes nothing and
\* the handler goes on to the next, nothing a statement did is undone, and
\* when the last statement removes the episode row alone the rows a failed
\* statement left are rows of an episode that no longer exists.
C27_PartialDelete ==
  [][/\ (delEp = "idle" /\ delEp' # delEp) =>
          /\ delEp' = "transcripts"
          /\ segments' \in {segments, SegmentsLeft(Episode)}
          /\ UNCHANGED <<transcripts, clips, status>>
     /\ (delEp = "transcripts" /\ delEp' # delEp) =>
          /\ delEp' = "clips"
          /\ transcripts' \in {transcripts, TranscriptsLeft(Episode)}
          /\ UNCHANGED <<segments, clips, status>>
     /\ (delEp = "clips" /\ delEp' # delEp) =>
          /\ delEp' = "episode"
          /\ clips' \in {clips, ClipsLeft(Episode)}
          /\ UNCHANGED <<segments, transcripts, status>>
     /\ (delEp = "episode" /\ delEp' # delEp) =>
          /\ delEp' = "done"
          /\ (delEpResp' = 200) => (status' = "none")
          /\ (delEpResp' # 200) => UNCHANGED <<segments, transcripts, clips, status>>
          /\ (delEpResp' = 200) =>
               \/ Orphans' = EpisodeRows
               \/ Orphans' = <<{}, {}, {}>>]_vars

C27_Witness ==
  /\ delEp = "done"
  /\ delEpResp = 200
  /\ delEpFailed
  /\ Orphans[2] # {}
  /\ Orphans[1] = {}

\* the runs that were started, and the one started last
Started == {o \in Orchs : pc[o] \notin {"idle", "reset"}}
LastStarted == CHOOSE o \in Started : \A q \in Started : q <= o

\* C28: when every run of the episode has ended, the status is what the run
\* started last left: completed after its success, failed after its failure;
\* no write of an earlier run comes after it.
C28_LastRunWins ==
  (/\ Started # {}
   /\ \A o \in Orchs : pc[o] \in {"idle", "done"}) =>
     status = IF result[LastStarted] = "success" THEN "completed" ELSE "failed"

\* C29: in every reachable state an episode whose status is completed has a
\* transcript row, whatever runs, requests and deletions have been interleaved.
C29_CompletedHasTranscript ==
  (status = "completed") => (\E t \in transcripts : t.episode_id = Episode)

\* C30: for every word list, saveTranscript of server-reference.js and
\* processTranscription of assemblyAI.js make the same sequence of segments,
\* with the same start_time, end_time and text.
C30_SameSegments ==
  segRan => (segOut = saveTranscriptSegments(1, Episode, segWords))

C30_Witness ==
  /\ segRan
  /\ Len(segOut) = 2
  /\ segOut[1].end_time - segOut[1].start_time = segmentDurationMs
  /\ segOut = saveTranscriptSegments(1, Episode, segWords)

TypeOK ==
  /\ status \in Statuses \cup {"none"}
  /\ \A o \in Orchs : attempts[o] \in 0..maxAttempts

====
